---- MODULE Spec2Model ----
(***************************************************************************)
(* Model of textual/_resolve.py: resolve(), resolve_fraction_unit() and    *)
(* resolve_box_models().  Lengths are exact rationals (Python Fraction),   *)
(* represented as normalised pairs <<numerator, denominator>>.             *)
(***************************************************************************)
EXTENDS Integers, Sequences, FiniteSets, TLC

\* ------------------------------------------------------------------------
\* Bounds of the input spaces
\* ------------------------------------------------------------------------
MaxDims == 2
MaxValue == 2
MaxTotal == 3
MaxNegTotal == 1
MaxGutter == 1
MaxMinimum == 1
MaxItems == 2
MaxWeight == 1
MaxMinBound == 2
MaxMaxBound == 1
MaxSpace == 1
MaxWidgets == 2
MaxSize == 3
MaxMargin == 1

\* ------------------------------------------------------------------------
\* fractions.Fraction
\* ------------------------------------------------------------------------
Abs(x) == IF x < 0 THEN -x ELSE x

RECURSIVE GCD(_, _)
GCD(a, b) == IF b = 0 THEN a ELSE GCD(b, a % b)

\* Fraction(n, d) for d # 0: lowest terms, positive denominator.
Fraction(n, d) ==
    LET g == GCD(Abs(n), Abs(d))
        s == IF d < 0 THEN -1 ELSE 1
    IN  <<(s * n) \div g, (s * d) \div g>>

\* The value None where a Fraction is expected.
None == <<0, 0>>

FromInt(i) == <<i, 1>>
Zero == FromInt(0)
One == FromInt(1)

FAdd(a, b) == Fraction(a[1] * b[2] + b[1] * a[2], a[2] * b[2])
FSub(a, b) == Fraction(a[1] * b[2] - b[1] * a[2], a[2] * b[2])
FMul(a, b) == Fraction(a[1] * b[1], a[2] * b[2])
\* Fraction(a, b) of two rationals, b # 0
FDiv(a, b) == Fraction(a[1] * b[2], a[2] * b[1])
FLt(a, b) == a[1] * b[2] < b[1] * a[2]
FLe(a, b) == a[1] * b[2] <= b[1] * a[2]
FMax(a, b) == IF FLt(a, b) THEN b ELSE a
FFloor(a) == a[1] \div a[2]

RECURSIVE FSum(_)
FSum(s) == IF s = <<>> THEN Zero ELSE FAdd(Head(s), FSum(Tail(s)))

RECURSIVE IntSum(_)
IntSum(s) == IF s = <<>> THEN 0 ELSE Head(s) + IntSum(Tail(s))

HasNone(s) == \E i \in 1..Len(s) : s[i] = None

\* ------------------------------------------------------------------------
\* Scalar: a fixed cell count or a weighted fraction (fr) unit
\* ------------------------------------------------------------------------
Scalars == [is_fraction : BOOLEAN, value : 0..MaxValue]

\* Scalar.resolve(size, viewport, fraction_unit)
ScalarResolve(scalar, fraction_unit) ==
    IF scalar.is_fraction THEN FMul(FromInt(scalar.value), fraction_unit)
    ELSE FromInt(scalar.value)

\* minimums=None
NoMinimums == <<-1>>

VARIABLES
    \* resolve()
    dimensions, total, gutter, expand, shrink, minimums,
    resolved_fractions, used_space, excess_space, index, results, pc, err,
    \* resolve_fraction_unit()
    widget_styles, resolve_dimension, remaining_space, initial_space,
    resolve, resolved, remaining_fraction, rounds, returned_unit, upc,
    \* resolve_box_models()
    box_dimensions, widgets, size, margin, greedy, box_models,
    width_fraction, height_fraction, bpc

rvars == <<dimensions, total, gutter, expand, shrink, minimums,
           resolved_fractions, used_space, excess_space, index, results, pc, err>>

uvars == <<widget_styles, resolve_dimension, remaining_space, initial_space,
           resolve, resolved, remaining_fraction, rounds, returned_unit, upc>>

bvars == <<box_dimensions, widgets, size, margin, greedy, box_models,
           width_fraction, height_fraction, bpc>>

vars == <<rvars, uvars, bvars>>

\* a Scalar | None that is None
NoScalar == [is_fraction |-> FALSE, value |-> -1]

\* resolve_fraction_unit() is not running
UnitIdle ==
    /\ widget_styles = <<>>
    /\ resolve_dimension = "width"
    /\ remaining_space = Zero
    /\ initial_space = Zero
    /\ resolve = <<>>
    /\ resolved = <<>>
    /\ remaining_fraction = Zero
    /\ rounds = 0
    /\ returned_unit = None
    /\ upc = "idle"

\* resolve() is not running
ResolveIdle ==
    /\ dimensions = <<>>
    /\ total = 0
    /\ gutter = 0
    /\ expand = FALSE
    /\ shrink = FALSE
    /\ minimums = NoMinimums
    /\ resolved_fractions = <<>>
    /\ used_space = Zero
    /\ excess_space = Zero
    /\ index = 0
    /\ results = <<>>
    /\ pc = "idle"
    /\ err = "none"

\* resolve_box_models() is not running
BoxIdle ==
    /\ box_dimensions = <<>>
    /\ widgets = <<>>
    /\ size = [width |-> 0, height |-> 0]
    /\ margin = [width |-> 0, height |-> 0]
    /\ greedy = TRUE
    /\ box_models = <<>>
    /\ width_fraction = None
    /\ height_fraction = None
    /\ bpc = "idle"

\* ------------------------------------------------------------------------
\* resolve()
\* ------------------------------------------------------------------------
SeqsUpTo(S, n) == UNION {[1..k -> S] : k \in 0..n}

total_gutter == gutter * (Len(dimensions) - 1)
total_space == total - total_gutter

\* lines 41-48: fraction scalars are deferred (None), the others resolved
Resolved(dims) ==
    [i \in 1..Len(dims) |->
        IF dims[i].is_fraction THEN None ELSE ScalarResolve(dims[i], One)]

\* lines 50-53
TotalFraction(dims) ==
    IntSum([i \in 1..Len(dims) |->
        IF dims[i].is_fraction THEN dims[i].value ELSE 0])

\* lines 56-67
ResolvedFractions(dims, tot, gut) ==
    LET resolved_0 == Resolved(dims)
        total_fraction == TotalFraction(dims)
        tgutter == gut * (Len(dims) - 1)
    IN  IF total_fraction # 0
        THEN LET consumed == FSum([i \in 1..Len(dims) |->
                     IF resolved_0[i] = None THEN Zero ELSE resolved_0[i]])
                 remaining == FMax(Zero, FSub(FromInt(tot - tgutter), consumed))
                 fraction_unit == FDiv(remaining, FromInt(total_fraction))
             IN  [i \in 1..Len(dims) |->
                     IF resolved_0[i] = None
                     THEN FMul(FromInt(dims[i].value), fraction_unit)
                     ELSE resolved_0[i]]
        ELSE resolved_0

ResolveInit ==
    /\ dimensions \in SeqsUpTo(Scalars, MaxDims)
    /\ total \in (-MaxNegTotal)..MaxTotal
    /\ gutter \in 0..MaxGutter
    /\ expand \in BOOLEAN
    /\ shrink \in BOOLEAN
    /\ minimums \in IF shrink
                    THEN {NoMinimums} \cup [1..Len(dimensions) -> 0..MaxMinimum]
                    ELSE {NoMinimums}
    /\ resolved_fractions = <<>>
    /\ used_space = Zero
    /\ excess_space = Zero
    /\ index = 0
    /\ results = <<>>
    /\ pc = "resolve"
    /\ err = "none"
    /\ UnitIdle
    /\ BoxIdle

Raise(e) ==
    /\ err' = e
    /\ pc' = "raised"

\* lines 41-69
ResolveDimensions ==
    /\ pc = "resolve"
    /\ resolved_fractions' = ResolvedFractions(dimensions, total, gutter)
    /\ pc' = IF expand \/ shrink THEN "expand" ELSE "offsets"
    /\ UNCHANGED <<dimensions, total, gutter, expand, shrink, minimums,
                   used_space, excess_space, index, results, err>>

\* Expanded with the surplus split evenly instead of by share
ExpandedEvenly(widths, used, space_left) ==
    [i \in 1..Len(widths) |->
        FAdd(widths[i], FDiv(space_left, FromInt(Len(widths))))]

\* lines 77-80
Expanded(widths, used, space_left) ==
    [i \in 1..Len(widths) |->
        FAdd(widths[i], FMul(FDiv(widths[i], used), space_left))]

\* lines 71-80
Expand ==
    /\ pc = "expand"
    /\ IF HasNone(resolved_fractions)
       THEN \* line 73: sum() over a list holding None
            /\ Raise("TypeError")
            /\ UNCHANGED <<resolved_fractions, used_space>>
       ELSE LET used == FSum(resolved_fractions)
                space_left == FSub(FromInt(total_space), used)
            IN  /\ used_space' = used
                /\ IF expand /\ FLt(Zero, space_left)
                   THEN IF resolved_fractions # <<>> /\ used = Zero
                        THEN \* line 78: Fraction(width, 0)
                             /\ Raise("ZeroDivisionError")
                             /\ UNCHANGED resolved_fractions
                        ELSE /\ resolved_fractions' =
                                  Expanded(resolved_fractions, used, space_left)
                             /\ pc' = IF shrink THEN "shrink" ELSE "offsets"
                             /\ UNCHANGED err
                   ELSE /\ pc' = IF shrink THEN "shrink" ELSE "offsets"
                        /\ UNCHANGED <<resolved_fractions, err>>
    /\ UNCHANGED <<dimensions, total, gutter, expand, shrink, minimums,
                   excess_space, index, results>>

Min(a, b) == IF a < b THEN a ELSE b

\* lines 82-84
ShrinkBegin ==
    /\ pc = "shrink"
    /\ excess_space' = FSub(used_space, FromInt(total_space))
    /\ IF minimums # NoMinimums /\ FLt(Zero, excess_space')
       THEN IF Min(Len(minimums), Len(resolved_fractions)) > 0
            THEN pc' = "shrink_loop" /\ index' = 1
            ELSE pc' = "shrink_sum" /\ UNCHANGED index
       ELSE pc' = "shrink_final" /\ UNCHANGED index
    /\ UNCHANGED <<dimensions, total, gutter, expand, shrink, minimums,
                   resolved_fractions, used_space, results, err>>

\* UpdatedWidth without the floor at the minimum
UpdatedWidthNoMinimum(minimum_width, width, used, excess) ==
    FSub(width, FMul(FMax(FDiv(width, used), One), excess))

\* lines 88-89
UpdatedWidth(minimum_width, width, used, excess) ==
    LET remove_space == FMul(FMax(FDiv(width, used), One), excess)
    IN  FMax(minimum_width, FSub(width, remove_space))

\* lines 85-94: one iteration of the minimums loop
ShrinkItem ==
    /\ pc = "shrink_loop"
    /\ IF used_space = Zero
       THEN \* line 88: Fraction(width, 0)
            /\ Raise("ZeroDivisionError")
            /\ UNCHANGED <<resolved_fractions, used_space, excess_space, index>>
       ELSE LET width == resolved_fractions[index]
                updated_width == UpdatedWidth(FromInt(minimums[index]), width,
                                              used_space, excess_space)
                used == FAdd(FSub(used_space, width), updated_width)
                excess == FSub(used, FromInt(total_space))
            IN  /\ resolved_fractions' =
                       [resolved_fractions EXCEPT ![index] = updated_width]
                /\ used_space' = used
                /\ excess_space' = excess
                /\ IF FLe(excess, Zero)
                      \/ index = Min(Len(minimums), Len(resolved_fractions))
                   THEN pc' = "shrink_sum" /\ UNCHANGED index
                   ELSE pc' = "shrink_loop" /\ index' = index + 1
                /\ UNCHANGED err
    /\ UNCHANGED <<dimensions, total, gutter, expand, shrink, minimums, results>>

\* lines 96-97
ShrinkSum ==
    /\ pc = "shrink_sum"
    /\ used_space' = FSum(resolved_fractions)
    /\ excess_space' = FSub(used_space', FromInt(total_space))
    /\ pc' = "shrink_final"
    /\ UNCHANGED <<dimensions, total, gutter, expand, shrink, minimums,
                   resolved_fractions, index, results, err>>

\* Shrunk with the whole excess taken from every cell
ShrunkByExcess(widths, used, excess) ==
    [i \in 1..Len(widths) |-> FSub(widths[i], excess)]

\* lines 100-103
Shrunk(widths, used, excess) ==
    [i \in 1..Len(widths) |->
        FSub(widths[i], FMul(FDiv(widths[i], used), excess))]

\* lines 99-103
ShrinkFinal ==
    /\ pc = "shrink_final"
    /\ IF FLt(Zero, excess_space)
       THEN IF resolved_fractions # <<>> /\ used_space = Zero
            THEN \* line 101: Fraction(width, 0)
                 /\ Raise("ZeroDivisionError")
                 /\ UNCHANGED resolved_fractions
            ELSE /\ resolved_fractions' =
                       Shrunk(resolved_fractions, used_space, excess_space)
                 /\ pc' = "offsets"
                 /\ UNCHANGED err
       ELSE /\ pc' = "offsets"
            /\ UNCHANGED <<resolved_fractions, err>>
    /\ UNCHANGED <<dimensions, total, gutter, expand, shrink, minimums,
                   used_space, excess_space, index, results>>

\* accumulate() over the first k widths, each followed by one gutter,
\* without the gutter after the k-th when last_gutter is FALSE
RECURSIVE Accumulated(_, _, _, _)
Accumulated(widths, gut, k, last_gutter) ==
    IF k = 0 THEN Zero
    ELSE LET before == FAdd(Accumulated(widths, gut, k - 1, TRUE), widths[k])
         IN  IF last_gutter THEN FAdd(before, FromInt(gut)) ELSE before

\* lines 105-112: offsets[0] = 0, offsets[j] = floor of the j-th partial sum
Offset(widths, gut, j) ==
    IF j = 0 THEN 0
    ELSE FFloor(Accumulated(widths, gut, (j + 1) \div 2, j % 2 = 0))

\* Results pairing adjacent boundaries, zip(offsets, offsets[1:])
ResultsAdjacent(widths, gut) ==
    [i \in 1..Len(widths) |->
        <<Offset(widths, gut, i - 1),
          Offset(widths, gut, i) - Offset(widths, gut, i - 1)>>]

\* lines 113-116: zip(offsets[::2], offsets[1::2])
Results(widths, gut) ==
    [i \in 1..Len(widths) |->
        LET offset1 == Offset(widths, gut, 2 * (i - 1))
            offset2 == Offset(widths, gut, 2 * i - 1)
        IN  <<offset1, offset2 - offset1>>]

\* lines 105-118
BuildOffsets ==
    /\ pc = "offsets"
    /\ IF HasNone(resolved_fractions)
       THEN \* line 106 / line 107: None.__floor__() or Fraction + None
            /\ Raise(IF resolved_fractions[1] = None
                     THEN "AttributeError" ELSE "TypeError")
            /\ UNCHANGED results
       ELSE /\ results' = Results(resolved_fractions, gutter)
            /\ pc' = "done"
            /\ UNCHANGED err
    /\ UNCHANGED <<dimensions, total, gutter, expand, shrink, minimums,
                   resolved_fractions, used_space, excess_space, index>>

ResolveNext ==
    \/ ResolveDimensions /\ UNCHANGED <<uvars, bvars>>
    \/ Expand /\ UNCHANGED <<uvars, bvars>>
    \/ ShrinkBegin /\ UNCHANGED <<uvars, bvars>>
    \/ ShrinkItem /\ UNCHANGED <<uvars, bvars>>
    \/ ShrinkSum /\ UNCHANGED <<uvars, bvars>>
    \/ ShrinkFinal /\ UNCHANGED <<uvars, bvars>>
    \/ BuildOffsets /\ UNCHANGED <<uvars, bvars>>

ResolveSpec == ResolveInit /\ [][ResolveNext]_vars

\* ------------------------------------------------------------------------
\* RenderStyles: the fields of a widget's styles that are read here
\* ------------------------------------------------------------------------
Cells(n) == [is_fraction |-> FALSE, value |-> n]
Fr(n) == [is_fraction |-> TRUE, value |-> n]

\* Styles whose fields on `axis` are as given; the fields of the other axis
\* hold values that differ from them.
Style(axis, scalar, min_scalar, max_scalar, overlay) ==
    IF axis = "width"
    THEN [width |-> scalar, min_width |-> min_scalar, max_width |-> max_scalar,
          height |-> Fr(1), min_height |-> NoScalar, max_height |-> Cells(0),
          overlay |-> overlay]
    ELSE [width |-> Fr(1), min_width |-> NoScalar, max_width |-> Cells(0),
          height |-> scalar, min_height |-> min_scalar, max_height |-> max_scalar,
          overlay |-> overlay]

\* ------------------------------------------------------------------------
\* resolve_fraction_unit()
\* ------------------------------------------------------------------------
\* lines 146-162
ResolveScalar(scalar, unit) ==
    IF scalar = NoScalar THEN None ELSE ScalarResolve(scalar, unit)

NotOverlay(styles) == styles.overlay # "screen"

\* lines 166-185: (scalar, min_value, max_value) of every non-overlay item
ResolveList(styles_list, axis) ==
    LET kept == SelectSeq(styles_list, NotOverlay)
    IN  [i \in 1..Len(kept) |->
            IF axis = "width"
            THEN <<kept[i].width,
                   ResolveScalar(kept[i].min_width, One),
                   ResolveScalar(kept[i].max_width, One)>>
            ELSE <<kept[i].height,
                   ResolveScalar(kept[i].min_height, One),
                   ResolveScalar(kept[i].max_height, One)>>]

\* line 188
TotalWeight(items) ==
    FromInt(IntSum([i \in 1..Len(items) |-> items[i][1].value]))

\* lines 211-215
ReturnValue(space, weight, initial) ==
    IF FLt(Zero, weight) THEN FDiv(space, weight) ELSE initial

\* ItemStep without the test that the item is still unresolved
ItemStepRefix(st, item, i, resolve_fraction) ==
    LET scalar == item[1]
        min_value == item[2]
        max_value == item[3]
        resolved_scalar == ScalarResolve(scalar, resolve_fraction)
    IN  IF min_value # None /\ FLt(resolved_scalar, min_value)
        THEN [remaining_space |-> FSub(st.remaining_space, min_value),
              remaining_fraction |->
                  FSub(st.remaining_fraction, FromInt(scalar.value)),
              resolved |-> [st.resolved EXCEPT ![i] = min_value],
              remaining_space_changed |-> TRUE]
        ELSE IF max_value # None /\ FLt(max_value, resolved_scalar)
        THEN [remaining_space |-> FSub(st.remaining_space, max_value),
              remaining_fraction |->
                  FSub(st.remaining_fraction, FromInt(scalar.value)),
              resolved |-> [st.resolved EXCEPT ![i] = max_value],
              remaining_space_changed |-> TRUE]
        ELSE st

\* lines 194-206: the loop body for one item; st holds remaining_space,
\* remaining_fraction, resolved and remaining_space_changed
ItemStep(st, item, i, resolve_fraction) ==
    LET scalar == item[1]
        min_value == item[2]
        max_value == item[3]
        resolved_scalar == ScalarResolve(scalar, resolve_fraction)
    IN  IF st.resolved[i] # None THEN st
        ELSE IF min_value # None /\ FLt(resolved_scalar, min_value)
        THEN [remaining_space |-> FSub(st.remaining_space, min_value),
              remaining_fraction |->
                  FSub(st.remaining_fraction, FromInt(scalar.value)),
              resolved |-> [st.resolved EXCEPT ![i] = min_value],
              remaining_space_changed |-> TRUE]
        ELSE IF max_value # None /\ FLt(max_value, resolved_scalar)
        THEN [remaining_space |-> FSub(st.remaining_space, max_value),
              remaining_fraction |->
                  FSub(st.remaining_fraction, FromInt(scalar.value)),
              resolved |-> [st.resolved EXCEPT ![i] = max_value],
              remaining_space_changed |-> TRUE]
        ELSE st

\* lines 193-206: the for loop over the first k items
RECURSIVE ForItems(_, _, _, _)
ForItems(st, items, k, resolve_fraction) ==
    IF k = 0 THEN st
    ELSE ItemStep(ForItems(st, items, k - 1, resolve_fraction),
                  items[k], k, resolve_fraction)

\* LoopsAgain that stops after the first round
LoopsNever(changed, weight) == FALSE

\* lines 208-209: whether the while loop goes round again
LoopsAgain(changed, weight) == changed /\ FLt(Zero, weight)

Bounds(max) == {NoScalar} \cup {Cells(n) : n \in 0..max}

\* the styles of one widget passed to resolve_fraction_unit
UnitStyles(axis) ==
    {Style(axis, Fr(0), NoScalar, NoScalar, "screen")} \cup
    {Style(axis, Fr(w), mn, mx, "none") :
        w \in 0..MaxWeight, mn \in Bounds(MaxMinBound), mx \in Bounds(MaxMaxBound)}

UnitInit ==
    /\ resolve_dimension \in {"width", "height"}
    /\ widget_styles \in SeqsUpTo(UnitStyles(resolve_dimension), MaxItems)
    /\ remaining_space \in {FromInt(n) : n \in 0..MaxSpace}
    /\ initial_space = Zero
    /\ resolve = <<>>
    /\ resolved = <<>>
    /\ remaining_fraction = Zero
    /\ rounds = 0
    /\ returned_unit = None
    /\ upc = "enter"
    /\ ResolveIdle
    /\ BoxIdle

\* lines 140-188, and lines 211-215 when the loop is not entered
UnitEnter ==
    /\ upc = "enter"
    /\ IF remaining_space = Zero \/ widget_styles = <<>>
       THEN \* lines 141-142
            /\ returned_unit' = One
            /\ upc' = "returned"
            /\ UNCHANGED <<initial_space, resolve, resolved, remaining_fraction>>
       ELSE LET items == ResolveList(widget_styles, resolve_dimension)
                weight == TotalWeight(items)
            IN  /\ initial_space' = remaining_space
                /\ resolve' = items
                /\ resolved' = [i \in 1..Len(items) |-> None]
                /\ remaining_fraction' = weight
                /\ IF FLt(Zero, weight)
                   THEN upc' = "loop" /\ UNCHANGED returned_unit
                   ELSE /\ upc' = "returned"
                        /\ returned_unit' =
                              ReturnValue(remaining_space, weight, remaining_space)
    /\ UNCHANGED <<widget_styles, resolve_dimension, remaining_space, rounds>>

\* lines 190-209: one round of the while loop, and lines 211-215 after the
\* last one
Round ==
    /\ upc = "loop"
    /\ LET resolve_fraction == FDiv(remaining_space, remaining_fraction)
           before == [remaining_space |-> remaining_space,
                      remaining_fraction |-> remaining_fraction,
                      resolved |-> resolved,
                      remaining_space_changed |-> FALSE]
       IN  \E after \in {ForItems(before, resolve, Len(resolve), resolve_fraction)} :
           /\ remaining_space' = after.remaining_space
           /\ remaining_fraction' = after.remaining_fraction
           /\ resolved' = after.resolved
           /\ rounds' = rounds + 1
           /\ IF LoopsAgain(after.remaining_space_changed, after.remaining_fraction)
              THEN upc' = "loop" /\ UNCHANGED returned_unit
              ELSE /\ upc' = "returned"
                   /\ returned_unit' = ReturnValue(after.remaining_space,
                                                   after.remaining_fraction,
                                                   initial_space)
    /\ UNCHANGED <<widget_styles, resolve_dimension, initial_space, resolve>>

UnitNext ==
    \/ UnitEnter /\ UNCHANGED <<rvars, bvars>>
    \/ Round /\ UNCHANGED <<rvars, bvars>>

UnitSpec == UnitInit /\ [][UnitNext]_vars

\* ------------------------------------------------------------------------
\* resolve_box_models()
\* ------------------------------------------------------------------------
Max(a, b) == IF a > b THEN a ELSE b

\* int(x) of a rational: truncation towards zero
IntOf(f) == IF f[1] >= 0 THEN f[1] \div f[2] ELSE -((-f[1]) \div f[2])

\* the placeholder None in box_models
NoBoxModel == [width |-> None, height |-> None]

\* Widget._get_box_model(size, viewport, width_fraction, height_fraction):
\* a dimension without a scalar fills the space it is offered, the others
\* resolve their scalar against the fraction passed
GetBoxModel(widget, fraction_w, fraction_h) ==
    [width |-> IF widget.styles.width = NoScalar THEN fraction_w
               ELSE ScalarResolve(widget.styles.width, fraction_w),
     height |-> IF widget.styles.height = NoScalar THEN fraction_h
                ELSE ScalarResolve(widget.styles.height, fraction_h)]

\* Size.__sub__
SizeSub(a, b) ==
    [width |-> Max(0, a.width - b.width), height |-> Max(0, a.height - b.height)]

IsFractionScalar(scalar) == scalar # NoScalar /\ scalar.is_fraction

\* lines 250-273: the box models of the items that are not fr-sized
FixedBoxModels(dims, ws, sz) ==
    [i \in 1..Len(ws) |->
        IF IsFractionScalar(dims[i]) THEN NoBoxModel
        ELSE GetBoxModel(ws[i],
                 FromInt(Max(0, sz.width - ws[i].margin.width)),
                 FromInt(Max(0, sz.height - ws[i].margin.height)))]

\* lines 282-290 and 309-317: int(sum of the resolved lengths of the
\* non-overlay items) on the axis
TotalRemaining(models, ws, axis) ==
    IntOf(FSum([i \in 1..Len(ws) |->
        IF models[i] # NoBoxModel /\ ws[i].styles.overlay # "screen"
        THEN (IF axis = "width" THEN models[i].width ELSE models[i].height)
        ELSE Zero]))

\* lines 292 and 319
RemainingSpace(models, ws, sz, mgn, axis) ==
    IF axis = "width"
    THEN Max(0, sz.width - TotalRemaining(models, ws, axis) - mgn.width)
    ELSE Max(0, sz.height - TotalRemaining(models, ws, axis) - mgn.height)

IsFractionWidth(styles) ==
    IsFractionScalar(styles.width) /\ styles.overlay # "screen"
IsFractionHeight(styles) ==
    IsFractionScalar(styles.height) /\ styles.overlay # "screen"

\* lines 294-300 and 321-327: the styles handed to resolve_fraction_unit
FractionStyles(ws, axis) ==
    LET widget_styles_0 == [i \in 1..Len(ws) |-> ws[i].styles]
    IN  IF axis = "width" THEN SelectSeq(widget_styles_0, IsFractionWidth)
        ELSE SelectSeq(widget_styles_0, IsFractionHeight)

BoxScalars == {NoScalar} \cup {Cells(n) : n \in 1..MaxValue} \cup {Fr(n) : n \in 1..MaxValue}

BoxWidgets(axis) ==
    {[styles |-> Style(axis, scalar, NoScalar, NoScalar, overlay),
      margin |-> [width |-> m, height |-> m]] :
        scalar \in BoxScalars, overlay \in {"none", "screen"}, m \in {0, MaxMargin}}

BoxInit ==
    /\ resolve_dimension \in {"width", "height"}
    /\ widgets \in SeqsUpTo(BoxWidgets(resolve_dimension), MaxWidgets)
    /\ box_dimensions \in [1..Len(widgets) -> BoxScalars]
    /\ \E n \in 0..MaxSize : size = [width |-> n, height |-> n]
    /\ \E m \in 0..MaxMargin : margin = [width |-> m, height |-> m]
    /\ greedy = TRUE
    /\ box_models = <<>>
    /\ width_fraction = None
    /\ height_fraction = None
    /\ bpc = "fixed"
    /\ widget_styles = <<>>
    /\ remaining_space = Zero
    /\ initial_space = Zero
    /\ resolve = <<>>
    /\ resolved = <<>>
    /\ remaining_fraction = Zero
    /\ rounds = 0
    /\ returned_unit = None
    /\ upc = "idle"
    /\ ResolveIdle

\* lines 241-305: the fixed box models, then either the return of line 277
\* or the call of resolve_fraction_unit
BoxFixed ==
    /\ bpc = "fixed"
    /\ box_models' = FixedBoxModels(box_dimensions, widgets, size)
    /\ IF \A i \in 1..Len(widgets) : box_models'[i] # NoBoxModel
       THEN /\ bpc' = "done"
            /\ UNCHANGED <<widget_styles, remaining_space, upc>>
       ELSE /\ bpc' = "solving"
            /\ widget_styles' = FractionStyles(widgets, resolve_dimension)
            /\ remaining_space' = FromInt(RemainingSpace(box_models', widgets,
                                              size, margin, resolve_dimension))
            /\ upc' = "enter"
    /\ UNCHANGED <<box_dimensions, widgets, size, margin, greedy,
                   width_fraction, height_fraction, resolve_dimension,
                   initial_space, resolve, resolved, remaining_fraction,
                   rounds, returned_unit>>

\* lines 306-307 and 333-334
Fractions(unit, sz, mgn, axis) ==
    LET margin_size == SizeSub(sz, mgn)
    IN  IF axis = "width"
        THEN [width |-> unit, height |-> FromInt(margin_size.height)]
        ELSE [width |-> FromInt(margin_size.width), height |-> unit]

\* lines 306-344: the fr-sized items get their box models from the unit
BoxFraction ==
    /\ bpc = "solving"
    /\ upc = "returned"
    /\ LET fractions == Fractions(returned_unit, size, margin, resolve_dimension)
       IN  /\ width_fraction' = fractions.width
           /\ height_fraction' = fractions.height
           /\ box_models' = [i \in 1..Len(widgets) |->
                  IF box_models[i] # NoBoxModel THEN box_models[i]
                  ELSE GetBoxModel(widgets[i], fractions.width, fractions.height)]
    /\ bpc' = "done"
    /\ UNCHANGED <<box_dimensions, widgets, size, margin, greedy, uvars>>

BoxNext ==
    \/ BoxFixed /\ UNCHANGED rvars
    \/ UnitEnter /\ UNCHANGED <<rvars, bvars>>
    \/ Round /\ UNCHANGED <<rvars, bvars>>
    \/ BoxFraction /\ UNCHANGED rvars

BoxSpec == BoxInit /\ [][BoxNext]_vars

\* ------------------------------------------------------------------------
\* The module as a whole: a call of any of the three entry points
\* ------------------------------------------------------------------------
Init == ResolveInit \/ UnitInit \/ BoxInit
Next == ResolveNext \/ BoxNext
Spec == Init /\ [][Next]_vars

\* ------------------------------------------------------------------------
\* Properties of resolve()
\* ------------------------------------------------------------------------
Count == Len(dimensions)
Lengths == [i \in 1..Len(results) |-> results[i][2]]
Offsets == [i \in 1..Len(results) |-> results[i][1]]
AllFixed == \A i \in 1..Count : ~dimensions[i].is_fraction
FixedSum ==
    IntSum([i \in 1..Count |->
        IF dimensions[i].is_fraction THEN 0 ELSE dimensions[i].value])
\* the lengths before expansion and shrinking, and their sum
InitialLengths == ResolvedFractions(dimensions, total, gutter)
InitialUsed == FSum(InitialLengths)
Returned == pc = "done"

FillCaseA ==
    /\ \E i \in 1..Count : dimensions[i].is_fraction /\ dimensions[i].value > 0
    /\ FixedSum <= total_space
FillCaseB ==
    /\ expand
    /\ FLt(Zero, InitialUsed)
    /\ FLt(InitialUsed, FromInt(total_space))
FillCaseC ==
    /\ shrink
    /\ FLt(FromInt(total_space), InitialUsed)

\* C1: in the cases (a) a positive-weight fraction scalar with the fixed
\* lengths fitting, (b) expand with 0 < used_space < available space and
\* (c) shrink with used_space > available space, for n >= 1 and available
\* space >= 0, the returned lengths plus the gutters add up to total exactly.
C1_FillsTotal ==
    (Returned /\ Count >= 1 /\ total_space >= 0
        /\ (FillCaseA \/ FillCaseB \/ FillCaseC))
    => IntSum(Lengths) + total_gutter = total

\* a shrink with minimums in which the loop clamped every cell to its
\* minimum and the final proportional pass then removed the rest
C1_Witness ==
    /\ Returned /\ Count >= 2 /\ total_space >= 0
    /\ FillCaseC /\ minimums # NoMinimums
    /\ index = Count
    /\ FLt(Zero, excess_space)
    /\ \E i \in 1..Count : Lengths[i] > 0
    /\ IntSum(Lengths) + total_gutter = total

FixedFits ==
    /\ Returned /\ Count >= 1 /\ AllFixed /\ ~expand /\ ~shrink
    /\ FixedSum + total_gutter <= total

\* C2 as stated: exact lengths, offsets chained by length and gutter, and
\* strictly increasing offsets.
C2_StrictOffsets ==
    FixedFits =>
        /\ \A i \in 1..Count : Lengths[i] = dimensions[i].value
        /\ \A i \in 1..(Count - 1) :
              /\ Offsets[i + 1] = Offsets[i] + Lengths[i] + gutter
              /\ Offsets[i + 1] > Offsets[i]

\* C2 (amended): for all-fixed scalars that fit, without expand or shrink,
\* every returned length is the scalar's resolved length and
\* offset[i+1] = offset[i] + length[i] + gutter; the offsets are
\* non-decreasing, and strictly increasing wherever length[i] + gutter > 0.
C2_ExactLengthsChainedOffsets ==
    FixedFits =>
        /\ \A i \in 1..Count : Lengths[i] = dimensions[i].value
        /\ \A i \in 1..(Count - 1) :
              /\ Offsets[i + 1] = Offsets[i] + Lengths[i] + gutter
              /\ Offsets[i + 1] >= Offsets[i]
              /\ (Lengths[i] + gutter > 0 => Offsets[i + 1] > Offsets[i])

C2_Witness ==
    /\ FixedFits /\ Count >= 2 /\ gutter > 0
    /\ dimensions[1].value > 0
    /\ Offsets[2] = dimensions[1].value + gutter

\* C3: resolve() never raises, whatever its input.
C3_NeverRaises == err = "none"

\* C4: every returned length is >= 0 and the offsets are non-decreasing.
C4_NonNegativeLengths ==
    Returned =>
        /\ \A i \in 1..Count : Lengths[i] >= 0
        /\ \A i \in 1..(Count - 1) : Offsets[i + 1] >= Offsets[i]

ShrinkToMinimums ==
    /\ Returned /\ shrink /\ minimums # NoMinimums
    /\ \A i \in 1..Count : FLe(FromInt(minimums[i]), InitialLengths[i])
    /\ IntSum(minimums) <= total_space
    /\ FLt(FromInt(total_space), InitialUsed)

\* C5: shrinking with minimums that fit reduces the cells in list order: a
\* cell is reduced only if every earlier cell ended exactly at its minimum,
\* and no returned length is below its minimum.
C5_ShrinkInOrder ==
    ShrinkToMinimums =>
        \A i \in 1..Count :
            /\ Lengths[i] >= minimums[i]
            /\ FLt(FromInt(Lengths[i]), InitialLengths[i]) =>
                  \A j \in 1..(i - 1) : Lengths[j] = minimums[j]

\* the second cell was reduced after the first was cut down to its minimum
C5_Witness ==
    /\ ShrinkToMinimums /\ Count >= 2
    /\ FLt(FromInt(Lengths[2]), InitialLengths[2])
    /\ FLt(FromInt(Lengths[1]), InitialLengths[1])
    /\ Lengths[1] = minimums[1]
    /\ minimums[1] > 0
    /\ Lengths[2] > minimums[2]

ExpandFixed ==
    /\ Returned /\ expand /\ AllFixed
    /\ 0 < FixedSum /\ FixedSum < total_space

\* C6: expanding all-fixed cells keeps their ratios within rounding: each
\* returned length is less than one cell away from
\* length * available / used_space, so a cell at least as long as another
\* before the expansion is at most one cell shorter after it.
C6_ExpandKeepsRatios ==
    ExpandFixed =>
        /\ \A i \in 1..Count :
              Abs(Lengths[i] * FixedSum - dimensions[i].value * total_space)
                  < FixedSum
        /\ \A i, j \in 1..Count :
              dimensions[i].value >= dimensions[j].value
                  => Lengths[i] >= Lengths[j] - 1

\* an expansion whose exact shares are not whole cells
C6_Witness ==
    /\ ExpandFixed /\ Count >= 2
    /\ \E i \in 1..Count :
          /\ dimensions[i].value > 0
          /\ Lengths[i] * FixedSum # dimensions[i].value * total_space

\* ------------------------------------------------------------------------
\* Properties of resolve_fraction_unit()
\* ------------------------------------------------------------------------
UnitReturned == upc = "returned"
\* the non-overlay items, as (scalar, min_value, max_value)
Items == ResolveList(widget_styles, resolve_dimension)
Fixed(i) == i <= Len(resolved) /\ resolved[i] # None
NumFixed == Cardinality({i \in 1..Len(resolved) : resolved[i] # None})
\* the length of item i: its bound if it was fixed, else weight * unit
ResolvedValue(i) ==
    IF Fixed(i) THEN resolved[i] ELSE ScalarResolve(Items[i][1], returned_unit)
WithinBounds(i) ==
    /\ Items[i][2] # None => FLe(Items[i][2], ResolvedValue(i))
    /\ Items[i][3] # None => FLe(ResolvedValue(i), Items[i][3])
\* the loop was set up: the remaining space is not zero and there are items
LoopSetUp == initial_space # Zero
BoundsOrdered ==
    \A i \in 1..Len(Items) :
        (Items[i][2] # None /\ Items[i][3] # None) => FLe(Items[i][2], Items[i][3])

\* C7 as stated: on return every item with a bound lies within its bounds,
\* for every set of items, weights, bounds and remaining space.
C7_AlwaysWithinBounds ==
    UnitReturned => \A i \in 1..Len(Items) : WithinBounds(i)

\* C7 (amended): on return every non-overlay item with a bound lies within
\* its bounds, provided the remaining space passed in is not zero, the
\* weights of the non-overlay items sum to more than zero, and min <= max
\* for every item that has both bounds.
C7_WithinBoundsOnceConverged ==
    (UnitReturned /\ LoopSetUp /\ FLt(Zero, TotalWeight(Items)) /\ BoundsOrdered)
        => \A i \in 1..Len(Items) : WithinBounds(i)

\* a second round clamped an item that was within its bounds in the first
C7_Witness ==
    /\ UnitReturned /\ LoopSetUp /\ FLt(Zero, TotalWeight(Items)) /\ BoundsOrdered
    /\ rounds >= 2
    /\ NumFixed >= 1
    /\ \E i \in 1..Len(Items) :
          ~Fixed(i) /\ (Items[i][2] # None \/ Items[i][3] # None)

\* C8: the loop ends after at most N rounds for N items: in every step the
\* number of rounds done is at most N, and below N while another round is
\* due; every round fixes at least one more item or is the last one; a
\* fixed item is never unfixed or fixed again.
C8_TerminatesWithinNRounds ==
    [][/\ rounds' <= Len(resolve')
       /\ upc' = "loop" => rounds' < Len(resolve')
       /\ (rounds' = rounds + 1) =>
            /\ (NumFixed' > NumFixed \/ upc' = "returned")
            /\ \A i \in 1..Len(resolved) :
                  resolved[i] # None => resolved'[i] = resolved[i]]_vars

\* N rounds for N >= 2 items
C8_Witness ==
    /\ UnitReturned
    /\ Len(Items) >= 2
    /\ rounds = Len(Items)

UnitPositive ==
    /\ \A i \in 1..Len(Items) : Items[i][1].value > 0
    /\ BoundsOrdered

\* C10: with remaining space >= 0, positive weights and min <= max, the
\* returned unit is >= 0 and the running remaining space is never negative
\* while an item is unresolved.
C10_NeverNegative ==
    UnitPositive =>
        /\ UnitReturned => FLe(Zero, returned_unit)
        /\ (\E i \in 1..Len(resolved) : resolved[i] = None)
              => FLe(Zero, remaining_space)

\* ------------------------------------------------------------------------
\* Properties of resolve_box_models()
\* ------------------------------------------------------------------------
\* the items left unresolved by the first step
Unresolved == {i \in 1..Len(widgets) : IsFractionScalar(box_dimensions[i])}
NotScreen(widget) == widget.styles.overlay # "screen"
UnresolvedWidget(i) == IF i \in Unresolved THEN widgets[i] ELSE [styles |-> [overlay |-> "screen"]]
\* the styles of the unresolved items that are not overlays, in order
UnresolvedStyles ==
    LET kept == SelectSeq([i \in 1..Len(widgets) |-> UnresolvedWidget(i)], NotScreen)
    IN  [i \in 1..Len(kept) |-> kept[i].styles]
ActiveFraction ==
    IF resolve_dimension = "width" THEN width_fraction ELSE height_fraction

\* C9: when an item is left unresolved, the solver is called over exactly
\* the unresolved non-overlay items with
\* remaining = max(0, container - resolved lengths - margin), and the unit it
\* returns is the fraction passed on the active axis.
C9_UnitOverUnresolvedItems ==
    /\ (bpc = "solving" /\ upc = "enter") =>
          /\ widget_styles = UnresolvedStyles
          /\ remaining_space =
                FromInt(RemainingSpace(box_models, widgets, size, margin,
                                       resolve_dimension))
    /\ (bpc = "done" /\ Unresolved # {}) => ActiveFraction = returned_unit

====
